---- MODULE Spec2Model ----
(***************************************************************************)
(* A model of the AI Document Explainer: the heuristic analyzer of         *)
(* ai_engine.py (summarize_doc, extract_key_points, find_best_chunk,       *)
(* answer_question and the two localization collaborators to_telugu and    *)
(* speak_telugu) and the dashboard's session state of app.py.              *)
(*                                                                         *)
(* A Python str is modelled as a sequence of one-character strings, so     *)
(* that lower(), strip(), split(), isupper() and the `in` operator are     *)
(* computed character by character as Python computes them.                *)
(***************************************************************************)
EXTENDS Integers, Sequences, FiniteSets, TLC

VARIABLES
    pc,                \* "ready" before a call of a pure analyzer function, "done" after
    question,          \* the question argument
    chunks,            \* the chunk-sequence argument
    op,                \* the name of the last operation that ran
    ret,               \* what it returned: [raised, value]
    audio_file,        \* the content of the file telugu_audio.mp3
    collab,            \* which collaborators the last operation invoked
    uploaded_file,     \* app.py: the file held by the st.file_uploader widget
    document_name,     \* app.py: st.session_state.document_name
    processed_chunks,  \* app.py: st.session_state.processed_chunks
    upload_history,    \* app.py: st.session_state.upload_history
    chat_history,      \* app.py: st.session_state.chat_history
    buttons_shown      \* app.py: the last run of the script rendered the analysis buttons

vars == <<pc, question, chunks, op, ret, audio_file, collab, uploaded_file,
          document_name, processed_chunks, upload_history, chat_history, buttons_shown>>

session_vars == <<uploaded_file, document_name, processed_chunks, upload_history,
                  chat_history, buttons_shown>>

-----------------------------------------------------------------------------
(* Python str operations on sequences of characters.                       *)

\* The characters str.strip() and str.split() treat as whitespace.
WHITESPACE == {" ", "\n", "\t", "\r"}

UPPERCASE ==
    <<"A", "B", "C", "D", "E", "F", "G", "H", "I", "J", "K", "L", "M",
      "N", "O", "P", "Q", "R", "S", "T", "U", "V", "W", "X", "Y", "Z">>

LOWERCASE ==
    <<"a", "b", "c", "d", "e", "f", "g", "h", "i", "j", "k", "l", "m",
      "n", "o", "p", "q", "r", "s", "t", "u", "v", "w", "x", "y", "z">>

IsUpperChar(c) == \E k \in 1..26 : UPPERCASE[k] = c

IsLowerChar(c) == \E k \in 1..26 : LOWERCASE[k] = c

\* One character of str.lower().
LowerChar(c) ==
    IF IsUpperChar(c) THEN LOWERCASE[CHOOSE k \in 1..26 : UPPERCASE[k] = c] ELSE c

\* str.lower()
Lower(s) == [i \in 1..Len(s) |-> LowerChar(s[i])]

\* str.isupper(): no lower-case character and at least one upper-case one.
IsUpper(s) ==
    /\ \A i \in 1..Len(s) : ~IsLowerChar(s[i])
    /\ \E i \in 1..Len(s) : IsUpperChar(s[i])

\* The least element of a non-empty set of integers.
Min(S) == CHOOSE m \in S : \A n \in S : m <= n

\* The greatest element of a non-empty set of integers.
Max(S) == CHOOSE m \in S : \A n \in S : n <= m

\* str.strip(): without its leading and trailing whitespace.
Strip(s) ==
    LET kept == {i \in 1..Len(s) : s[i] \notin WHITESPACE}
    IN  IF kept = {} THEN <<>> ELSE SubSeq(s, Min(kept), Max(kept))

\* needle in hay
Contains(hay, needle) ==
    \E i \in 0..(Len(hay) - Len(needle)) :
        \A j \in 1..Len(needle) : hay[i + j] = needle[j]

\* str.split(sep) for a one-character separator, from position `from` on: the
\* fragments between the separators, empty fragments included.
RECURSIVE SplitFrom(_, _, _)
SplitFrom(s, sep, from) ==
    LET at == {i \in from..Len(s) : s[i] = sep}
    IN  IF at = {}
        THEN <<SubSeq(s, from, Len(s))>>
        ELSE <<SubSeq(s, from, Min(at) - 1)>> \o SplitFrom(s, sep, Min(at) + 1)

Split(s, sep) == SplitFrom(s, sep, 1)

\* str.split() with no argument, from position `from` on: the maximal runs of
\* non-whitespace characters.
RECURSIVE WordsFrom(_, _)
WordsFrom(s, from) ==
    LET starts == {i \in from..Len(s) : s[i] \notin WHITESPACE}
    IN  IF starts = {}
        THEN <<>>
        ELSE LET b == Min(starts)
                 stops == {i \in b..Len(s) : s[i] \in WHITESPACE}
                 e == IF stops = {} THEN Len(s) ELSE Min(stops) - 1
             IN  <<SubSeq(s, b, e)>> \o WordsFrom(s, e + 1)

Words(s) == WordsFrom(s, 1)

\* sep.join(parts)
RECURSIVE Join(_, _)
Join(sep, parts) ==
    IF parts = <<>> THEN <<>>
    ELSE IF Len(parts) = 1 THEN parts[1]
    ELSE parts[1] \o sep \o Join(sep, Tail(parts))

\* seq[:n]
Take(seq, n) == SubSeq(seq, 1, IF Len(seq) < n THEN Len(seq) ELSE n)

\* What a call hands back: a value, or an exception that leaves the function.
Return(v) == [raised |-> FALSE, value |-> v]

Raise(e) == [raised |-> TRUE, value |-> e]

-----------------------------------------------------------------------------
(* The fixed strings of ai_engine.py.                                      *)

NO_MATCH_MESSAGE ==
    <<"T", "h", "e", " ", "d", "o", "c", "u", "m", "e", "n", "t", " ", "d", "i", "s", "c",
      "u", "s", "s", "e", "s", " ", "t", "h", "i", "s", " ", "t", "o", "p", "i", "c", ",",
      " ", "b", "u", "t", " ", "n", "o", " ", "e", "x", "a", "c", "t", " ", "s", "e", "n",
      "t", "e", "n", "c", "e", " ", "m", "a", "t", "c", "h", " ", "w", "a", "s", " ", "f",
      "o", "u", "n", "d", ".">>

NO_CONTENT_SUMMARY ==
    <<"N", "o", " ", "c", "o", "n", "t", "e", "n", "t", " ", "t", "o", " ", "s", "u", "m",
      "m", "a", "r", "i", "z", "e", ".">>

NO_CONTENT_KEY_POINTS ==
    <<"N", "o", " ", "c", "o", "n", "t", "e", "n", "t", " ", "t", "o", " ", "e", "x", "t",
      "r", "a", "c", "t", " ", "k", "e", "y", " ", "p", "o", "i", "n", "t", "s", " ", "f",
      "r", "o", "m", ".">>

FORMULAS_PREFIX ==
    <<"T", "h", "i", "s", " ", "d", "o", "c", "u", "m", "e", "n", "t", " ", "c", "o", "n",
      "t", "a", "i", "n", "s", " ", "k", "e", "y", " ", "f", "o", "r", "m", "u", "l", "a",
      "s", " ", "a", "n", "d", " ", "c", "o", "n", "c", "e", "p", "t", "s", " ", "r", "e",
      "l", "a", "t", "e", "d", " ", "t", "o", ":", " ">>

TOPICS_PREFIX ==
    <<"T", "h", "i", "s", " ", "d", "o", "c", "u", "m", "e", "n", "t", " ", "c", "o", "v",
      "e", "r", "s", " ", "i", "m", "p", "o", "r", "t", "a", "n", "t", " ", "t", "o", "p",
      "i", "c", "s", " ", "i", "n", " ", "E", "l", "e", "c", "t", "r", "o", "m", "a", "g",
      "n", "e", "t", "i", "c", "s", " ", "s", "u", "c", "h", " ", "a", "s", ":", " ">>

-----------------------------------------------------------------------------
(* Python's None and the values that may be None.                          *)

None == <<>>

Some(x) == <<x>>

-----------------------------------------------------------------------------
(* Question answering: find_best_chunk and answer_question.                *)

\* The for loop of find_best_chunk from chunk i on, then its last line.
RECURSIVE find_best_chunk_from(_, _, _)
find_best_chunk_from(q, cs, i) ==
    IF i > Len(cs)
    THEN (IF cs # <<>> THEN cs[1] ELSE <<>>)
    ELSE IF Contains(Lower(cs[i]), Lower(q))
         THEN cs[i]
         ELSE find_best_chunk_from(q, cs, i + 1)

\* A variant that returns the last matching chunk instead of the first.
find_best_chunk_last_match(q, cs) ==
    LET hits == {i \in 1..Len(cs) : Contains(Lower(cs[i]), Lower(q))}
    IN  IF hits # {} THEN cs[Max(hits)] ELSE find_best_chunk_from(q, cs, 1)

\* A variant that falls back to the last chunk (chunks[-1]) instead of chunks[0].
find_best_chunk_fallback_last(q, cs) ==
    LET hits == {i \in 1..Len(cs) : Contains(Lower(cs[i]), Lower(q))}
    IN  IF hits = {} /\ cs # <<>> THEN cs[Len(cs)] ELSE find_best_chunk_from(q, cs, 1)

find_best_chunk(q, cs) == find_best_chunk_from(q, cs, 1)

\* The for loop of answer_question from sentence i on, then its last line.
\* question.lower().split()[0] is evaluated in every iteration and raises
\* IndexError when the question has no word.
RECURSIVE answer_question_from(_, _, _)
answer_question_from(q, sentences, i) ==
    IF i > Len(sentences)
    THEN Return(NO_MATCH_MESSAGE)
    ELSE IF Words(Lower(q)) = <<>>
         THEN Raise("IndexError")
         ELSE IF Contains(Lower(sentences[i]), Words(Lower(q))[1])
              THEN Return(Strip(sentences[i]))
              ELSE answer_question_from(q, sentences, i + 1)

\* A variant that goes on to the sentences of the other chunks when the selected
\* chunk has no matching sentence.
answer_question_other_chunks(q, cs) ==
    LET first == answer_question_from(q, Split(find_best_chunk(q, cs), "."), 1)
        all == answer_question_from(q, Split(Join(<<".">>, cs), "."), 1)
    IN  IF ~first.raised /\ first.value = NO_MATCH_MESSAGE THEN all ELSE first

answer_question(q, cs) ==
    answer_question_from(q, Split(find_best_chunk(q, cs), "."), 1)

-----------------------------------------------------------------------------
(* The localization collaborators: to_telugu and speak_telugu.             *)

\* The name of the one file speak_telugu writes.
FILENAME == "telugu_audio.mp3"

\* What GoogleTranslator(source='auto', target='te').translate(text) returns
\* when it returns: the Telugu rendering of text, a text other than text.
Translate(text) == <<"[te]">> \o text

\* What gTTS(text, lang='te') saves: the speech of text, complete or cut short.
Speech(text) == [lang |-> "te", text |-> text, complete |-> TRUE]

Truncated(text) == [lang |-> "te", text |-> text, complete |-> FALSE]

\* How a call of the translation service ends.
TranslateOutcomes == {"ok", "raised"}

\* How a call of the speech service ends: gTTS(...) raises (line 46), or
\* tts.save(filename) raises (line 47) before or after it has opened the file
\* for writing, or both succeed.
SynthesizeOutcomes ==
    {"ok", "gTTS raised", "save raised, file untouched", "save raised, file truncated"}

\* A variant that returns the empty string when the translation fails.
to_telugu_empty_on_failure(text, outcome) ==
    IF outcome = "ok" THEN Translate(text) ELSE <<>>

to_telugu(text, outcome) ==
    IF outcome = "ok" THEN Translate(text) ELSE text

\* A variant that returns the file name although the synthesis failed.
speak_telugu_name_on_failure(text, outcome, file) ==
    [audio |-> Some(FILENAME),
     file |-> IF outcome = "ok" THEN Some(Speech(text)) ELSE file]

\* speak_telugu returns the file name or None, and changes the file.
speak_telugu(text, outcome, file) ==
    CASE outcome = "ok" ->
            [audio |-> Some(FILENAME), file |-> Some(Speech(text))]
      [] outcome = "gTTS raised" ->
            [audio |-> None, file |-> file]
      [] outcome = "save raised, file untouched" ->
            [audio |-> None, file |-> file]
      [] outcome = "save raised, file truncated" ->
            [audio |-> None, file |-> Some(Truncated(text))]

\* What the last call did with the collaborators.
NotCalled == [translate |-> "not called", synthesize |-> "not called"]

Called(translation, synthesis) == [translate |-> translation, synthesize |-> synthesis]

-----------------------------------------------------------------------------
(* Summaries and key points: summarize_doc and extract_key_points.         *)

\* The bullet character U+2022.
BULLET == "U+2022"

\* The for loop of summarize_doc from line i on: the trimmed lines that are
\* longer than 5 characters and upper-case.
RECURSIVE topics_from(_, _)
topics_from(lines, i) ==
    IF i > Len(lines)
    THEN <<>>
    ELSE LET line == Strip(lines[i])
         IN  (IF Len(line) > 5 /\ IsUpper(line) THEN <<line>> ELSE <<>>)
                 \o topics_from(lines, i + 1)

\* A variant that keeps the first 7 topics.
summary_of_seven_topics(text) ==
    LET lines == Split(text, "\n")
        topics == topics_from(lines, 1)
        important == SelectSeq(lines, LAMBDA line : Len(line) > 40)
    IN  IF topics = <<>>
        THEN FORMULAS_PREFIX \o Join(<<",", " ">>, Take(important, 5))
        ELSE TOPICS_PREFIX \o Join(<<",", " ">>, Take(topics, 7))

\* The summary summarize_doc makes of the first chunk.
summary_of(text) ==
    LET lines == Split(text, "\n")
        topics == topics_from(lines, 1)
        important == SelectSeq(lines, LAMBDA line : Len(line) > 40)
    IN  IF topics = <<>>
        THEN FORMULAS_PREFIX \o Join(<<",", " ">>, Take(important, 5))
        ELSE TOPICS_PREFIX \o Join(<<",", " ">>, Take(topics, 6))

\* A variant without the guard for an empty chunk sequence that summarizes the
\* empty text instead.
summarize_doc_no_guard(cs, translation, synthesis, file) ==
    LET summary == IF cs = <<>> THEN NO_CONTENT_SUMMARY ELSE summary_of(cs[1])
        telugu_summary == to_telugu(summary, translation)
        spoken == speak_telugu(telugu_summary, synthesis, file)
    IN  [ret |-> Return(<<summary, telugu_summary, spoken.audio>>),
         file |-> spoken.file,
         collab |-> Called(translation, synthesis)]

\* summarize_doc returns (summary, telugu_summary, audio_file) and may change
\* the audio file.
summarize_doc(cs, translation, synthesis, file) ==
    IF cs = <<>>
    THEN [ret |-> Return(<<NO_CONTENT_SUMMARY, <<>>, None>>),
          file |-> file,
          collab |-> NotCalled]
    ELSE LET summary == summary_of(cs[1])
             telugu_summary == to_telugu(summary, translation)
             spoken == speak_telugu(telugu_summary, synthesis, file)
         IN  [ret |-> Return(<<summary, telugu_summary, spoken.audio>>),
              file |-> spoken.file,
              collab |-> Called(translation, synthesis)]

\* The key points extract_key_points makes of the first chunk.
key_points_of(text) ==
    LET lines == Split(text, ".")
        stripped == [i \in 1..Len(lines) |-> Strip(lines[i])]
        points == SelectSeq(stripped, LAMBDA line : Len(line) > 40)
    IN  <<"\n", BULLET, " ">> \o Join(<<"\n", BULLET, " ">>, Take(points, 5))

\* extract_key_points returns (key_points, telugu, audio_file) and may change
\* the audio file.
extract_key_points(cs, translation, synthesis, file) ==
    IF cs = <<>>
    THEN [ret |-> Return(<<NO_CONTENT_KEY_POINTS, <<>>, None>>),
          file |-> file,
          collab |-> NotCalled]
    ELSE LET key_points == key_points_of(cs[1])
             telugu == to_telugu(key_points, translation)
             spoken == speak_telugu(telugu, synthesis, file)
         IN  [ret |-> Return(<<key_points, telugu, spoken.audio>>),
              file |-> spoken.file,
              collab |-> Called(translation, synthesis)]

-----------------------------------------------------------------------------
(* The questions and chunks the question-answering functions are applied   *)
(* to.                                                                     *)

Q_EMPTY ==
    <<>>

Q_BLANK ==
    <<" ", "\n">>

Q_WHAT_IS_INDUCTION ==
    <<"W", "h", "a", "t", " ", "i", "s", " ", "i", "n", "d", "u", "c", "t", "i", "o", "n",
      "?">>

Q_INDUCTION ==
    <<"i", "n", "d", "u", "c", "t", "i", "o", "n">>

Q_MAGNETS ==
    <<"M", "a", "g", "n", "e", "t", "s">>

Q_IS_IT ==
    <<" ", "i", "s", " ", "i", "t">>

K_FARADAY ==
    <<"F", "a", "r", "a", "d", "a", "y", " ", "s", "t", "u", "d", "i", "e", "d", " ", "m",
      "a", "g", "n", "e", "t", "s", ".", " ", "W", "h", "a", "t", " ", "a", " ", "d", "a",
      "y", ".">>

K_INDUCTION ==
    <<"I", "N", "D", "U", "C", "T", "I", "O", "N", " ", "i", "s", " ", "a", " ", "p", "r",
      "o", "c", "e", "s", "s", ".", " ", "I", "t", " ", "m", "a", "t", "t", "e", "r", "s",
      ".">>

K_ASKED ==
    <<"T", "h", "e", "y", " ", "a", "s", "k", "e", "d", ":", " ", "w", "h", "a", "t", " ",
      "i", "s", " ", "i", "n", "d", "u", "c", "t", "i", "o", "n", "?", " ", "N", "o", "b",
      "o", "d", "y", " ", "k", "n", "e", "w", ".">>

K_PADDED ==
    <<" ", "W", "h", "a", "t", " ", "i", "s", " ", "I", "n", "d", "u", "c", "t", "i", "o",
      "n", "?", " ", "i", "t", " ", "i", "s", " ", "a", " ", "p", "r", "o", "c", "e", "s",
      "s", ".", " ">>

K_SOMEWHAT ==
    <<"I", "t", " ", "i", "s", " ", "s", "o", "m", "e", "w", "h", "a", "t", " ", "l", "i",
      "k", "e", " ", "i", "n", "d", "u", "c", "t", "i", "o", "n", ".", " ", "S", "o", " ",
      "w", "h", "a", "t", ".">>

KEYWORD_INDUCTION ==
    <<"i", "n", "d", "u", "c", "t", "i", "o", "n">>

K_EMPTY ==
    <<>>

Questions == {Q_EMPTY, Q_BLANK, Q_WHAT_IS_INDUCTION, Q_INDUCTION, Q_MAGNETS, Q_IS_IT}

QAChunks == {K_FARADAY, K_INDUCTION, K_ASKED, K_PADDED, K_SOMEWHAT, K_EMPTY}

\* The longest chunk sequence the question-answering functions are applied to.
MaxChunks == 2

\* Every sequence of at most n elements of S.
SeqsUpTo(S, n) == UNION {[1..k -> S] : k \in 0..n}

-----------------------------------------------------------------------------
(* The documents summarize_doc is applied to: lines joined by newlines.    *)

L_TOPICS ==
    <<"T", "O", "P", "I", "C", "S">>

L_UNIT ==
    <<" ", "U", "N", "I", "T", " ", "1", "2", " ">>

L_TOPIC ==
    <<"T", "O", "P", "I", "C">>

L_MIXED ==
    <<"T", "o", "p", "i", "c", "s">>

L_41 ==
    <<"t", "h", "e", " ", "c", "u", "r", "l", " ", "o", "f", " ", "e", " ", "i", "s", " ",
      "m", "i", "n", "u", "s", " ", "t", "h", "e", " ", "r", "a", "t", "e", " ", "o", "f",
      " ", "b", " ", "h", "e", "r", "e">>

L_40 ==
    <<"t", "h", "e", " ", "d", "i", "v", "e", "r", "g", "e", "n", "c", "e", " ", "o", "f",
      " ", "b", " ", "i", "s", " ", "z", "e", "r", "o", " ", "a", "t", " ", "a", "n", "y",
      " ", "p", "o", "i", "n", "t">>

L_41_PADDED ==
    <<"g", "a", "u", "s", "s", " ", "r", "e", "l", "a", "t", "e", "s", " ", "f", "l", "u",
      "x", " ", "t", "o", " ", "e", "n", "c", "l", "o", "s", "e", "d", " ", "c", "h", "a",
      "r", "g", "e", " ", " ", " ", " ">>

L_LONG_HEADING ==
    <<"E", "L", "E", "C", "T", "R", "O", "M", "A", "G", "N", "E", "T", "I", "C", " ", "I",
      "N", "D", "U", "C", "T", "I", "O", "N", " ", "A", "N", "D", " ", "F", "A", "R", "A",
      "D", "A", "Y", "'", "S", " ", "L", "A", "W">>

K_SECOND ==
    <<"S", "E", "C", "O", "N", "D", " ", "C", "H", "U", "N", "K", "\n", "t", "h", "e", " ",
      "s", "e", "c", "o", "n", "d", " ", "c", "h", "u", "n", "k", " ", "h", "a", "s", " ",
      "a", " ", "l", "o", "n", "g", " ", "l", "i", "n", "e", " ", "o", "f", " ", "i", "t",
      "s", " ", "o", "w", "n">>

\* The families of lines a document is made of.
LineFamilies ==
    {{L_TOPICS, L_UNIT}, {L_TOPICS, L_41}, {L_41, L_41_PADDED}, {L_40, L_41},
     {L_TOPIC, L_LONG_HEADING}, {L_MIXED, L_41_PADDED}}

\* The most lines of a document.
MaxLines == 7

SumDocs ==
    UNION {{Join(<<"\n">>, lines) : lines \in SeqsUpTo(F, MaxLines)} : F \in LineFamilies}

SumInputs == {<<>>} \cup {<<doc>> : doc \in SumDocs} \cup {<<doc, K_SECOND>> : doc \in SumDocs}

-----------------------------------------------------------------------------
(* The documents extract_key_points is applied to: fragments, each ended   *)
(* by a period.                                                            *)

F_41 ==
    <<" ", "F", "a", "r", "a", "d", "a", "y", " ", "f", "o", "u", "n", "d", " ", "t", "h",
      "a", "t", " ", "a", " ", "c", "h", "a", "n", "g", "i", "n", "g", " ", "f", "l", "u",
      "x", " ", "d", "r", "i", "v", "e", "s">>

F_40 ==
    <<" ", "A", " ", "s", "t", "e", "a", "d", "y", " ", "c", "u", "r", "r", "e", "n", "t",
      " ", "m", "a", "k", "e", "s", " ", "t", "h", "a", "t", " ", "s", "t", "e", "a", "d",
      "y", " ", "f", "i", "e", "l", "d", " ">>

F_LONG ==
    <<" ", "T", "h", "i", "s", " ", "i", "s", " ", "a", " ", "c", "o", "n", "s", "i", "d",
      "e", "r", "a", "b", "l", "y", " ", "l", "o", "n", "g", "e", "r", " ", "s", "e", "n",
      "t", "e", "n", "c", "e", " ", "t", "h", "a", "t", " ", "e", "x", "c", "e", "e", "d",
      "s", " ", "f", "o", "r", "t", "y", " ", "c", "h", "a", "r", "a", "c", "t", "e", "r",
      "s", " ", "e", "a", "s", "i", "l", "y">>

F_SHORT ==
    <<"T", "h", "i", "s", " ", "i", "s", " ", "a", " ", "s", "h", "o", "r", "t", " ", "s",
      "e", "n", "t", "e", "n", "c", "e">>

\* The families of fragments a document is made of.
FragmentFamilies == {{F_41, F_LONG}, {F_41, F_40}, {F_LONG, F_SHORT}, {F_40, F_SHORT}}

\* The most fragments of a document.
MaxFragments == 6

\* The fragments, each followed by a period.
RECURSIVE Sentences(_)
Sentences(fragments) ==
    IF fragments = <<>> THEN <<>>
    ELSE Head(fragments) \o <<".">> \o Sentences(Tail(fragments))

KeyPointDocs ==
    UNION {{Sentences(fragments) : fragments \in SeqsUpTo(F, MaxFragments)} :
              F \in FragmentFamilies}

KeyPointInputs ==
    {<<>>} \cup {<<doc>> : doc \in KeyPointDocs} \cup {<<doc, K_SECOND>> : doc \in KeyPointDocs}

-----------------------------------------------------------------------------
(* The session state of app.py before anything was uploaded, and the       *)
(* analyzer's state before any call.                                       *)

SessionInit ==
    /\ uploaded_file = None
    /\ document_name = None
    /\ processed_chunks = None
    /\ upload_history = <<>>
    /\ chat_history = <<>>
    /\ buttons_shown = FALSE

NoCall ==
    /\ op = "none"
    /\ ret = Return(<<>>)
    /\ collab = NotCalled

-----------------------------------------------------------------------------
(* SpecQA: find_best_chunk and answer_question applied once to every       *)
(* question and chunk sequence of the bounded input sets.                  *)

InitQA ==
    /\ pc = "ready"
    /\ question \in Questions
    /\ chunks \in SeqsUpTo(QAChunks, MaxChunks)
    /\ audio_file = None
    /\ NoCall
    /\ SessionInit

CallFindBestChunk ==
    /\ pc = "ready"
    /\ pc' = "done"
    /\ op' = "find_best_chunk"
    /\ ret' = Return(find_best_chunk(question, chunks))
    /\ UNCHANGED <<question, chunks, audio_file, collab, session_vars>>

CallAnswerQuestion ==
    /\ pc = "ready"
    /\ pc' = "done"
    /\ op' = "answer_question"
    /\ ret' = answer_question(question, chunks)
    /\ UNCHANGED <<question, chunks, audio_file, collab, session_vars>>

NextQA == CallFindBestChunk \/ CallAnswerQuestion

SpecQA == InitQA /\ [][NextQA]_vars

-----------------------------------------------------------------------------
(* SpecSum and SpecKP: summarize_doc and extract_key_points applied once   *)
(* to every chunk sequence of the bounded input sets, with every outcome   *)
(* of the two collaborators.                                               *)

\* The variables a call of an analyzer function sets.
call_vars == <<chunks, op, ret, audio_file, collab>>

\* A call summarize_doc(cs) with some of the given outcomes of each collaborator.
DoSummarizeDoc(cs, translations, syntheses) ==
    /\ op' = "summarize_doc"
    /\ chunks' = cs
    /\ \E translation \in translations, synthesis \in syntheses :
          LET r == summarize_doc(cs, translation, synthesis, audio_file)
          IN  /\ ret' = r.ret
              /\ audio_file' = r.file
              /\ collab' = r.collab

\* A call extract_key_points(cs) with some of the given outcomes of each
\* collaborator.
DoExtractKeyPoints(cs, translations, syntheses) ==
    /\ op' = "extract_key_points"
    /\ chunks' = cs
    /\ \E translation \in translations, synthesis \in syntheses :
          LET r == extract_key_points(cs, translation, synthesis, audio_file)
          IN  /\ ret' = r.ret
              /\ audio_file' = r.file
              /\ collab' = r.collab

CallSummarizeDoc ==
    /\ pc = "ready"
    /\ pc' = "done"
    /\ DoSummarizeDoc(chunks, TranslateOutcomes, SynthesizeOutcomes)
    /\ UNCHANGED <<question, session_vars>>

CallExtractKeyPoints ==
    /\ pc = "ready"
    /\ pc' = "done"
    /\ DoExtractKeyPoints(chunks, TranslateOutcomes, SynthesizeOutcomes)
    /\ UNCHANGED <<question, session_vars>>

InitSum ==
    /\ pc = "ready"
    /\ question = <<>>
    /\ chunks \in SumInputs
    /\ audio_file = None
    /\ NoCall
    /\ SessionInit

SpecSum == InitSum /\ [][CallSummarizeDoc]_vars

InitKP ==
    /\ pc = "ready"
    /\ question = <<>>
    /\ chunks \in KeyPointInputs
    /\ audio_file = None
    /\ NoCall
    /\ SessionInit

SpecKP == InitKP /\ [][CallExtractKeyPoints]_vars

-----------------------------------------------------------------------------
(* SpecAn: any sequence of calls of summarize_doc and extract_key_points,  *)
(* each with any of a few chunk sequences and any outcome of the           *)
(* collaborators; the audio file persists from call to call.               *)

AnInputs == {<<>>, <<L_TOPICS>>, <<Sentences(<<F_LONG>>)>>, <<L_41, L_TOPICS>>}

InitAn ==
    /\ pc = "ready"
    /\ question = <<>>
    /\ chunks = <<>>
    /\ audio_file = None
    /\ NoCall
    /\ SessionInit

AnalyzerSummarize ==
    /\ \E cs \in AnInputs : DoSummarizeDoc(cs, TranslateOutcomes, SynthesizeOutcomes)
    /\ UNCHANGED <<pc, question, session_vars>>

AnalyzerKeyPoints ==
    /\ \E cs \in AnInputs : DoExtractKeyPoints(cs, TranslateOutcomes, SynthesizeOutcomes)
    /\ UNCHANGED <<pc, question, session_vars>>

NextAn == AnalyzerSummarize \/ AnalyzerKeyPoints

SpecAn == InitAn /\ [][NextAn]_vars

-----------------------------------------------------------------------------
(* The dashboard of app.py: document_loader.load_document, the text        *)
(* processor and the script that Streamlit runs again on every event.      *)

EXT_TXT ==
    <<".", "t", "x", "t">>

EXT_PDF ==
    <<".", "p", "d", "f">>

UNSUPPORTED ==
    <<"U", "n", "s", "u", "p", "p", "o", "r", "t", "e", "d", " ", "f", "i", "l", "e", " ",
      "f", "o", "r", "m", "a", "t">>

NAME_A ==
    <<"a", ".", "t", "x", "t">>

NAME_B ==
    <<"b", ".", "p", "d", "f">>

TEXT_1 ==
    <<"T", "O", "P", "I", "C", "S", "\n", "I", "n", "d", "u", "c", "t", "i", "o", "n", " ",
      "i", "s", " ", "a", " ", "p", "r", "o", "c", "e", "s", "s", ".", " ">>

TEXT_2 ==
    <<" ", "W", "h", "a", "t", " ", "i", "s", " ", "i", "n", "d", "u", "c", "t", "i", "o",
      "n", "?", "\n", "N", "o", "b", "o", "d", "y", " ", "k", "n", "e", "w", ".">>

PAGE_1 ==
    <<"T", "O", "P", "I", "C", "S", "\n">>

PAGE_2 ==
    <<"I", "n", "d", "u", "c", "t", "i", "o", "n", " ", "i", "s", " ", "a", " ", "p", "r",
      "o", "c", "e", "s", "s", ".", " ">>

\* path.endswith(suffix)
EndsWith(path, suffix) ==
    /\ Len(path) >= Len(suffix)
    /\ SubSeq(path, Len(path) - Len(suffix) + 1, Len(path)) = suffix

\* The page texts of a PDF one after the other, nothing between them.
RECURSIVE ConcatPages(_)
ConcatPages(pages) ==
    IF pages = <<>> THEN <<>> ELSE Head(pages) \o ConcatPages(Tail(pages))

\* load_document on the saved copy of an uploaded file: the text of a .txt
\* file, the concatenated page texts of a .pdf file, the sentinel for any other
\* name; reading or decoding a file that is not readable raises.
load_document(file) ==
    IF EndsWith(file.name, EXT_TXT)
    THEN (IF file.readable THEN Return(file.data) ELSE Raise("UnicodeDecodeError"))
    ELSE IF EndsWith(file.name, EXT_PDF)
         THEN (IF file.readable THEN Return(ConcatPages(file.data))
                                ELSE Raise("PdfReadError"))
         ELSE Return(UNSUPPORTED)

\* text_processor.clean_text: raw text to canonical text, idempotent.
clean_text(raw) == Strip(raw)

\* text_processor.split_into_chunks for a text shorter than the chunk bound:
\* exactly one chunk, the text.
split_into_chunks(text) == IF text = <<>> THEN <<>> ELSE <<text>>

\* The chunk sequence produced from a readable file.
ChunksOfFile(file) == split_into_chunks(clean_text(load_document(file).value))

\* The files a user uploads: two of the same name and different content, a PDF
\* of two pages, and a PDF that cannot be read.
Files ==
    {[name |-> NAME_A, data |-> TEXT_1, readable |-> TRUE],
     [name |-> NAME_A, data |-> TEXT_2, readable |-> TRUE],
     [name |-> NAME_B, data |-> <<PAGE_1, PAGE_2>>, readable |-> TRUE],
     [name |-> NAME_B, data |-> <<>>, readable |-> FALSE]}

\* The questions a user types.
AppQuestions == {Q_BLANK, Q_INDUCTION}

\* The outcomes of the collaborators in the dashboard's runs.
AppTranslateOutcomes == {"ok", "raised"}

AppSynthesizeOutcomes == {"ok", "gTTS raised"}

\* The most entries of the chat history: a question and its answer.
MaxChat == 2

\* if st.session_state.processed_chunks:
Truthy(option) == option # None /\ option[1] # <<>>

\* The elements of a sequence.
Range(seq) == {seq[i] : i \in 1..Len(seq)}

\* Lines 69-114 of the script with `file` uploaded: the session's document name,
\* upload history and chunks after them, and whether st.stop() ended the run.
\* The name is set before the file is saved and processed.
upload_handling(file, saved, history) ==
    IF document_name = Some(file.name)
    THEN [stopped |-> FALSE, name |-> document_name, history |-> history,
          chunks |-> processed_chunks]
    ELSE LET appended == IF file.name \in Range(history)
                         THEN history ELSE Append(history, file.name)
             loaded == load_document(file)
         IN  IF ~saved \/ loaded.raised
             THEN [stopped |-> TRUE, name |-> Some(file.name), history |-> appended,
                   chunks |-> processed_chunks]
             ELSE [stopped |-> FALSE, name |-> Some(file.name), history |-> appended,
                   chunks |-> Some(split_into_chunks(clean_text(loaded.value)))]

\* Lines 142-222 of the script: the handler of the button that was clicked,
\* with q in the question box.
ButtonHandlers(click, q, cs, chat) ==
    CASE click = "summary" /\ Truthy(cs) ->
            /\ DoSummarizeDoc(cs[1], AppTranslateOutcomes, AppSynthesizeOutcomes)
            /\ chat_history' = chat
      [] click = "keypoints" /\ Truthy(cs) ->
            /\ DoExtractKeyPoints(cs[1], AppTranslateOutcomes, AppSynthesizeOutcomes)
            /\ chat_history' = chat
      [] click = "ask" /\ q # <<>> /\ Truthy(cs) ->
            LET answer == answer_question(q, cs[1])
            IN  /\ op' = "answer_question"
                /\ chunks' = cs[1]
                /\ ret' = answer
                /\ collab' = NotCalled
                /\ audio_file' = audio_file
                /\ chat_history' =
                      IF answer.raised
                      THEN chat
                      ELSE chat \o <<<<"You", q>>, <<"AI", answer.value>>>>
      [] OTHER ->
            /\ chat_history' = chat
            /\ UNCHANGED call_vars

\* One run of the script, from its first line to its last or to st.stop(), with
\* `file` in the uploader, q in the question box and `click` the button that
\* was clicked.
RunScript(file, click, q) ==
    LET history == IF click = "clear_uploads" THEN <<>> ELSE upload_history
        chat == IF click = "clear_chat" THEN <<>> ELSE chat_history
    IN  /\ uploaded_file' = file
        /\ question' = q
        /\ pc' = pc
        /\ IF file = None
           THEN /\ upload_history' = history
                /\ chat_history' = chat
                /\ buttons_shown' = FALSE
                /\ UNCHANGED <<document_name, processed_chunks, call_vars>>
           ELSE \E saved \in BOOLEAN :
                   LET u == upload_handling(file[1], saved, history)
                   IN  /\ document_name' = u.name
                       /\ upload_history' = u.history
                       /\ processed_chunks' = u.chunks
                       /\ buttons_shown' = ~u.stopped
                       /\ IF u.stopped
                          THEN /\ chat_history' = chat
                               /\ UNCHANGED call_vars
                          ELSE ButtonHandlers(click, q, u.chunks, chat)

\* The user puts a file into the uploader.
UploadFile ==
    \E f \in Files : uploaded_file # Some(f) /\ RunScript(Some(f), "none", question)

\* The user takes the file out of the uploader.
RemoveFile == uploaded_file # None /\ RunScript(None, "none", question)

\* The user clicks one of the two sidebar buttons.
ClickClearUploadHistory == RunScript(uploaded_file, "clear_uploads", question)

ClickClearChatHistory == RunScript(uploaded_file, "clear_chat", question)

\* The user clicks one of the analysis buttons, which the last run rendered.
ClickGenerateSummary == buttons_shown /\ RunScript(uploaded_file, "summary", question)

ClickExtractKeyPoints == buttons_shown /\ RunScript(uploaded_file, "keypoints", question)

\* The user types a question into the box, which the last run rendered.
TypeQuestion ==
    /\ buttons_shown
    /\ \E q \in AppQuestions : q # question /\ RunScript(uploaded_file, "none", q)

\* The user clicks Ask.
ClickAsk ==
    /\ buttons_shown
    /\ Len(chat_history) < MaxChat
    /\ RunScript(uploaded_file, "ask", question)

Init ==
    /\ pc = "serving"
    /\ question = <<>>
    /\ chunks = <<>>
    /\ audio_file = None
    /\ NoCall
    /\ SessionInit

Next ==
    \/ UploadFile
    \/ RemoveFile
    \/ ClickClearUploadHistory
    \/ ClickClearChatHistory
    \/ ClickGenerateSummary
    \/ ClickExtractKeyPoints
    \/ TypeQuestion
    \/ ClickAsk

Spec == Init /\ [][Next]_vars

-----------------------------------------------------------------------------
(* Claims about question answering, checked under SpecQA.                  *)

\* The chunks whose lower-case form contains the lower-case whole question.
MatchingChunks == {i \in 1..Len(chunks) : Contains(Lower(chunks[i]), Lower(question))}

\* The chunk the specification's step 1 selects.
ExpectedBestChunk ==
    IF MatchingChunks # {} THEN chunks[Min(MatchingChunks)]
    ELSE IF Len(chunks) > 0 THEN chunks[1]
    ELSE <<>>

\* The answer the specification's step 2 gives from a selected chunk, for a
\* question that has a first word.
ExpectedSentence(context) ==
    LET sentences == Split(context, ".")
        word == Words(Lower(question))[1]
        hits == {i \in 1..Len(sentences) : Contains(Lower(sentences[i]), word)}
    IN  IF hits = {} THEN NO_MATCH_MESSAGE ELSE Strip(sentences[Min(hits)])

\* C1: answer_question returns a string and never raises, for every question
\* (the empty and the whitespace-only one included) and every chunk sequence
\* (the empty one included); on such degenerate input the result is the fixed
\* fallback message.
C1_AnswerNeverRaises ==
    op = "answer_question" =>
        /\ ~ret.raised
        /\ (Words(question) = <<>> \/ chunks = <<>>) => ret.value = NO_MATCH_MESSAGE

\* The chunks that contain the keyword "induction" in any letter case.
KeywordChunks ==
    {i \in 1..Len(chunks) : Contains(Lower(chunks[i]), KEYWORD_INDUCTION)}

\* The case of C2: the question "What is induction?", some chunk containing the
\* keyword and no chunk containing the whole question text.
KeywordCase ==
    /\ op = "answer_question"
    /\ question = Q_WHAT_IS_INDUCTION
    /\ KeywordChunks # {}
    /\ MatchingChunks = {}

\* C2 as stated: in the keyword case answer_question answers from a chunk that
\* contains the keyword: the first sentence of that chunk containing the
\* question's first word, or the fallback message if it has none.
C2_AnswersFromKeywordChunk ==
    KeywordCase =>
        /\ ~ret.raised
        /\ \E i \in KeywordChunks : ret.value = ExpectedSentence(chunks[i])

\* C2 as amended: in the keyword case answer_question answers from the first
\* chunk of the sequence, whether or not it contains the keyword: the first
\* sentence of chunks[0] containing the question's first word, or the fallback
\* message if it has none.
C2_AnswersFromFirstChunk ==
    KeywordCase =>
        /\ ~ret.raised
        /\ ret.value = ExpectedSentence(chunks[1])

\* The keyword chunk is not the first one, and the answer is a sentence that no
\* keyword chunk would give.
C2_Witness ==
    /\ KeywordCase
    /\ 1 \notin KeywordChunks
    /\ ret.value # NO_MATCH_MESSAGE
    /\ \A i \in KeywordChunks : ret.value # ExpectedSentence(chunks[i])

\* C3: find_best_chunk returns the lowest-index chunk whose lower-case form
\* contains the lower-case whole question; if there is none, chunks[0] of a
\* non-empty sequence and the empty string of an empty one.  The result is an
\* element of the sequence or the empty string.
C3_FindBestChunkFirstMatch ==
    op = "find_best_chunk" =>
        /\ ~ret.raised
        /\ ret.value = ExpectedBestChunk
        /\ ret.value = <<>> \/ \E i \in 1..Len(chunks) : chunks[i] = ret.value

\* Two different chunks match, the earlier only when letter case is ignored, and
\* the earlier one is returned.
C3_Witness ==
    /\ op = "find_best_chunk"
    /\ Cardinality(MatchingChunks) = 2
    /\ chunks[1] # chunks[2]
    /\ ~Contains(chunks[1], question)
    /\ ret.value = chunks[1]

\* C7: for a question that has a first word, answer_question returns the trimmed
\* first sentence of the selected chunk whose lower-case form contains the
\* lower-case first word of the question, and the fixed message when the
\* selected chunk has no such sentence, whatever the other chunks contain.
C7_FirstSentenceOfSelectedChunk ==
    (op = "answer_question" /\ Words(question) # <<>>) =>
        /\ ~ret.raised
        /\ ret.value = ExpectedSentence(ExpectedBestChunk)

\* The fixed message is returned although a sentence of another chunk contains
\* the question's first word.
C7_Witness ==
    /\ op = "answer_question"
    /\ Words(question) # <<>>
    /\ ret.value = NO_MATCH_MESSAGE
    /\ \E i \in 1..Len(chunks) : ExpectedSentence(chunks[i]) # NO_MATCH_MESSAGE

\* A sentence is returned trimmed: the selected sentence has surrounding
\* whitespace that the answer does not have.
C7_WitnessTrimmed ==
    /\ op = "answer_question"
    /\ Words(question) # <<>>
    /\ ret.value # NO_MATCH_MESSAGE
    /\ \E s \in {Split(ExpectedBestChunk, ".")[i] :
                    i \in 1..Len(Split(ExpectedBestChunk, "."))} :
          Strip(s) = ret.value /\ s # ret.value

-----------------------------------------------------------------------------
(* Claims about summarize_doc, checked under SpecSum.                      *)

\* The lines of the first chunk.
FirstChunkLines == Split(chunks[1], "\n")

\* Among `lines`, the topic headings: trimmed, longer than 5 characters, with
\* an upper-case letter and no lower-case one.
HeadingsAmong(lines) ==
    {i \in 1..Len(lines) : Len(Strip(lines[i])) > 5 /\ IsUpper(Strip(lines[i]))}

\* Among `lines`, those longer than 40 characters.
LongAmong(lines) == {i \in 1..Len(lines) : Len(lines[i]) > 40}

HeadingLines == HeadingsAmong(FirstChunkLines)

LongLines == LongAmong(FirstChunkLines)

\* The k-th smallest element of a set of integers.
Nth(S, k) == CHOOSE i \in S : Cardinality({j \in S : j < i}) = k - 1

\* The number of elements of S, n at most.
AtMost(S, n) == IF Cardinality(S) < n THEN Cardinality(S) ELSE n

\* The summary the specification gives for the lines of the first chunk.
ExpectedSummary(lines, headings, long) ==
    IF headings # {}
    THEN TOPICS_PREFIX \o
         Join(<<",", " ">>,
              [k \in 1..AtMost(headings, 6) |-> Strip(lines[Nth(headings, k)])])
    ELSE FORMULAS_PREFIX \o
         Join(<<",", " ">>, [k \in 1..AtMost(long, 5) |-> lines[Nth(long, k)]])

\* C5: on a non-empty chunk sequence the summary is made of the first chunk
\* alone: the topics prefix and the first 6 headings, joined by ", ", if the
\* chunk has a heading, and otherwise the formulas prefix and the first 5 lines
\* longer than 40 characters.  In the topics branch a line longer than 40
\* characters that is no heading does not appear.
C5_SummaryBranches ==
    (op = "summarize_doc" /\ chunks # <<>>) =>
        LET lines == FirstChunkLines
            headings == HeadingsAmong(lines)
            long == LongAmong(lines)
        IN  /\ ~ret.raised
            /\ ret.value[1] = ExpectedSummary(lines, headings, long)
            /\ headings # {} =>
                  \A i \in long \ headings : ~Contains(ret.value[1], lines[i])

\* The first chunk has 7 headings or more, the last of them is not in the
\* summary, and there is a second chunk.
C5_Witness ==
    /\ op = "summarize_doc"
    /\ Len(chunks) = 2
    /\ Cardinality(HeadingLines) >= 7
    /\ ~Contains(ret.value[1], Strip(FirstChunkLines[Max(HeadingLines)]))

\* The first chunk has no heading and 6 long lines or more.
C5_WitnessImportant ==
    /\ op = "summarize_doc"
    /\ chunks # <<>>
    /\ HeadingLines = {}
    /\ Cardinality(LongLines) >= 6
    /\ Contains(ret.value[1], FirstChunkLines[Min(LongLines)])

-----------------------------------------------------------------------------
(* Claims about extract_key_points, checked under SpecKP.                  *)

\* The fragments of the first chunk between its periods.
FirstChunkFragments == Split(chunks[1], ".")

\* The fragments whose trimmed length exceeds 40.
Qualifying ==
    {i \in 1..Len(FirstChunkFragments) : Len(Strip(FirstChunkFragments[i])) > 40}

\* The number of bullet markers in a text.
BulletCount(text) == Cardinality({i \in 1..Len(text) : text[i] = BULLET})

\* C6: the result holds one bullet marker for each of the first 5 qualifying
\* fragments and no other: their number is min(5, number of qualifying
\* fragments), and a chunk with no qualifying fragment yields no bullet.
C6_OneBulletPerFragment ==
    (op = "extract_key_points" /\ chunks # <<>>) =>
        /\ ~ret.raised
        /\ BulletCount(ret.value[1]) = AtMost(Qualifying, 5)

\* What holds of the code: with a qualifying fragment, the bullets are those of
\* the first 5 qualifying fragments, trimmed and in document order; with none,
\* the result is a lone bullet marker.
C6_BulletsOfCode ==
    (op = "extract_key_points" /\ chunks # <<>>) =>
        ret.value[1] =
            IF Qualifying = {}
            THEN <<"\n", BULLET, " ">>
            ELSE <<"\n", BULLET, " ">> \o
                 Join(<<"\n", BULLET, " ">>,
                      [k \in 1..AtMost(Qualifying, 5) |->
                          Strip(FirstChunkFragments[Nth(Qualifying, k)])])

-----------------------------------------------------------------------------
(* Claims about the collaborators and the audio file, checked under SpecAn.*)

IsAnalysis == op \in {"summarize_doc", "extract_key_points"}

\* The primary-language text of the call when no collaborator fails.
PrimaryText ==
    IF op = "summarize_doc"
    THEN summarize_doc(chunks, "ok", "ok", None).ret.value[1]
    ELSE extract_key_points(chunks, "ok", "ok", None).ret.value[1]

\* C4: on a non-empty chunk sequence summarize_doc and extract_key_points
\* return a triple whatever the collaborators do: the localized text is the
\* primary text when the translation fails, the audio field is None when the
\* synthesis fails, and the primary text is that of the call without failure.
C4_GracefulDegradation ==
    (IsAnalysis /\ chunks # <<>>) =>
        /\ ~ret.raised
        /\ Len(ret.value) = 3
        /\ collab.translate = "raised" => ret.value[2] = ret.value[1]
        /\ collab.synthesize # "ok" => ret.value[3] = None
        /\ ret.value[1] = PrimaryText

\* Both collaborators failed in a call on a non-empty chunk sequence.
C4_Witness ==
    /\ IsAnalysis
    /\ chunks # <<>>
    /\ collab.translate = "raised"
    /\ collab.synthesize \notin {"ok", "not called"}
    /\ ret.value[2] = ret.value[1]
    /\ ret.value[3] = None

\* C8: a call on the empty chunk sequence returns the fixed placeholder, the
\* empty localized text and no audio, invokes neither collaborator and leaves
\* the audio file as it was.
C8_EmptyInput ==
    [][chunks' = <<>> =>
          /\ op' = "summarize_doc" => ret' = Return(<<NO_CONTENT_SUMMARY, <<>>, None>>)
          /\ op' = "extract_key_points" =>
                ret' = Return(<<NO_CONTENT_KEY_POINTS, <<>>, None>>)
          /\ collab' = NotCalled
          /\ audio_file' = audio_file]_vars

\* A call on the empty chunk sequence has returned while the file of an earlier
\* synthesis exists.
C8_Witness ==
    /\ IsAnalysis
    /\ chunks = <<>>
    /\ collab = NotCalled
    /\ audio_file # None

\* C9 as stated: a successful synthesis writes telugu_audio.mp3 with the speech
\* of its text and returns that name, whatever the file held; a failed
\* synthesis returns None and leaves the file as it was.
C9_FailureKeepsFile ==
    [][collab'.synthesize # "not called" =>
          IF collab'.synthesize = "ok"
          THEN /\ ret'.value[3] = Some(FILENAME)
               /\ audio_file' = Some(Speech(ret'.value[2]))
          ELSE /\ ret'.value[3] = None
               /\ audio_file' = audio_file]_vars

\* C9 as amended: a successful synthesis writes telugu_audio.mp3 with the speech
\* of its text and returns that name, whatever the file held; a failed
\* synthesis returns None, and leaves the file as it was unless tts.save failed
\* after opening it, which leaves a truncated file.
C9_FailureKeepsOrTruncatesFile ==
    [][collab'.synthesize # "not called" =>
          IF collab'.synthesize = "ok"
          THEN /\ ret'.value[3] = Some(FILENAME)
               /\ audio_file' = Some(Speech(ret'.value[2]))
          ELSE /\ ret'.value[3] = None
               /\ \/ audio_file' = audio_file
                  \/ /\ collab'.synthesize = "save raised, file truncated"
                     /\ audio_file' = Some(Truncated(ret'.value[2]))]_vars

\* A synthesis has failed and the file holds the complete speech of another,
\* earlier text.
C9_Witness ==
    /\ IsAnalysis
    /\ collab.synthesize \notin {"ok", "not called"}
    /\ ret.value[3] = None
    /\ audio_file # None
    /\ audio_file[1].complete
    /\ audio_file[1].text # ret.value[2]

-----------------------------------------------------------------------------
(* Claims about the dashboard's session state, checked under Spec.         *)

\* C10: whenever the session's document name is the name of the file in the
\* uploader, the session's chunks are the chunk sequence produced from that
\* file.
C10_ChunksBelongToDocument ==
    (uploaded_file # None /\ document_name = Some(uploaded_file[1].name)) =>
        /\ uploaded_file[1].readable
        /\ processed_chunks = Some(ChunksOfFile(uploaded_file[1]))

\* C10, the buttons: a run of the script in which an analysis button does its
\* work (a call of an analyzer function) calls it with the chunk sequence
\* produced from the file that is in the uploader.
C10_ButtonsUseCurrentDocument ==
    [][call_vars' # call_vars =>
          /\ uploaded_file'[1].readable
          /\ chunks' = ChunksOfFile(uploaded_file'[1])]_vars

====
